---- MODULE Spec2Model ----
(***************************************************************************)
(* Model of django_elasticsearch_dsl/documents.py: the chunked queryset    *)
(* iterator (queryset_iterator), the document preparer (init_prepare,      *)
(* prepare) and the bulk update pipeline of DocType (update, _bulk, bulk,  *)
(* parallel_bulk, _get_actions, _prepare_action).                          *)
(*                                                                         *)
(* A model row is identified by its primary key.  A Python value that may  *)
(* be None, and a dict key that may be absent, is an option: <<>> for      *)
(* None/absent, <<v>> for the value v.                                     *)
(***************************************************************************)
EXTENDS Integers, Sequences, FiniteSets

None == << >>
Some(v) == << v >>

\* Bounds of the iterator model.
MaxPk == 5
MaxChunk == 6
\* Bounds of the iterator model under concurrent table mutation.
MaxMutPk == 3
MaxMutChunk == 3
\* Bound of the preparer and update models: the primary keys of the instances.
MaxObjPk == 2

VARIABLES
    \* ---- queryset_iterator ----
    table,          \* primary keys of the rows the queryset matches right now
    chunk_size,     \* the chunk_size argument
    pk,             \* the local pk (last yielded primary key)
    query,          \* the lazy chunked_queryset: its pk__gt filter, if any
    page,           \* the evaluated chunked_queryset (its result cache)
    pos,            \* position of the for loop in page
    ipc,            \* where the generator stands
    yielded,        \* history: the keys yielded so far, in order
    fetches,        \* history: the size of every page fetched, in order
    stayed,         \* history: rows present since the iterator started
    aheadOfCursor,  \* history: rows inserted with a key above pk, still present
    aheadOfPage,    \* history: rows inserted with a key above pk and above the page in memory, still present
    removedBehind,  \* history: << key, Len(yielded) >> of every row deleted with a key at or below pk
    \* ---- the Document class and instance ----
    declared,       \* _fields as the class declares them: a sequence of [name, ded, path]
    with_related,   \* the field names for which prepare_<name>_with_related is defined
    plain,          \* the field names for which prepare_<name> is defined
    related_instance_to_ignore,   \* the constructor's argument (an option)
    auto_refresh,   \* self.django.auto_refresh
    queryset_pagination,          \* self.django.queryset_pagination
    id_overridden,  \* whether the subclass overrides generate_id
    indexable,      \* the rows for which should_index_object returns true
    dpc,            \* "class": not constructed yet; "ready": __init__ has run
    fields,         \* _fields of the instance (init_prepare fills in empty paths)
    prepared_fields,              \* self._prepared_fields
    prepared,       \* history: the last prepare(instance) call, [instance, data]
    \* ---- one update() call ----
    upc,            \* where the call stands
    thing,          \* the argument: a model instance or an iterable of instances
    action,         \* the action argument
    parallel,       \* the parallel argument
    refresh,        \* the refresh argument (an option)
    object_list,    \* the list _get_actions iterates
    next,           \* position of the _get_actions generator in object_list
    chunk,          \* parallel path: the actions of the chunk being filled
    received,       \* the actions the search cluster was sent, each with its row
    predicate_calls,              \* history: the rows should_index_object was called with
    client_calls,   \* history: every call of the client's bulk helpers, with its kwargs
    chunk_results,  \* parallel path: the per-chunk results drained so far
    response,       \* what the client's bulk() returned (an option)
    client_error,   \* the error the client raised (an option)
    signals,        \* history: the post_index signals sent
    result,         \* what update() returned (an option)
    raised,         \* the error update() raised (an option)
    log             \* history: the order of the events of the call

iterVars == << table, chunk_size, pk, query, page, pos, ipc, yielded, fetches,
               stayed, aheadOfCursor, aheadOfPage, removedBehind >>

docVars == << declared, with_related, plain, related_instance_to_ignore,
              auto_refresh, queryset_pagination, id_overridden, indexable, dpc,
              fields, prepared_fields, prepared >>

updVars == << upc, thing, action, parallel, refresh, object_list, next, chunk,
              received, predicate_calls, client_calls, chunk_results, response,
              client_error, signals, result, raised, log >>

vars == << iterVars, docVars, updVars >>

(***************************************************************************)
(* queryset_iterator                                                       *)
(***************************************************************************)

Min(a, b) == IF a < b THEN a ELSE b

SetMin(S) == CHOOSE x \in S : \A y \in S : x <= y

SetMax(S) == CHOOSE x \in S : \A y \in S : y <= x

\* queryset.order_by('pk'): the rows in ascending primary-key order (the
\* keys up to the middle of their range, sorted, then the keys above it).
RECURSIVE OrderByPk(_)
OrderByPk(S) ==
    IF S = {} THEN << >>
    ELSE LET lo == SetMin(S)
             hi == SetMax(S)
             mid == (lo + hi) \div 2
         IN  IF lo = hi THEN << lo >>
             ELSE OrderByPk({ x \in S : x <= mid }) \o OrderByPk({ x \in S : x > mid })

\* A faulty variant of PkGt: pk__gte in place of pk__gt.
PkGte(k, bound) == k >= bound

\* .filter(pk__gt=pk)
PkGt(k, bound) == k > bound

\* A faulty variant of Filter: the pk__gt filter is dropped.
FilterDropped(tbl, q) == tbl

\* The rows a lazy queryset matches: all of them (the first, unfiltered
\* queryset) or those the pk__gt filter lets through.
Filter(tbl, q) ==
    IF q = None THEN tbl ELSE { k \in tbl : PkGt(k, q[1]) }

\* A faulty variant of Slice: one row more than chunk_size.
SliceOneMore(s, n) == SubSeq(s, 1, Min(n + 1, Len(s)))

\* [:chunk_size]
Slice(s, n) == SubSeq(s, 1, Min(n, Len(s)))

\* Evaluating the lazy chunked_queryset against the table as it is now.
Evaluate(tbl, q, n) == Slice(OrderByPk(Filter(tbl, q)), n)

HistoryInit ==
    /\ yielded = << >>
    /\ fetches = << >>
    /\ stayed = table
    /\ aheadOfCursor = {}
    /\ aheadOfPage = {}
    /\ removedBehind = {}

\* Lines 64-65: pk = 0 and the first, unfiltered, not yet evaluated queryset.
IterStart(maxPk, maxChunk) ==
    /\ table \in SUBSET (1..maxPk)
    /\ chunk_size \in 1..maxChunk
    /\ pk = 0
    /\ query = None
    /\ page = << >>
    /\ pos = 1
    /\ ipc = "fetch"
    /\ HistoryInit

\* Line 66: len(chunked_queryset) evaluates the queryset and caches the page;
\* an empty page ends the generator.
FetchPage ==
    /\ ipc = "fetch"
    /\ page' = Evaluate(table, query, chunk_size)
    /\ fetches' = Append(fetches, Len(page'))
    /\ pos' = 1
    /\ ipc' = IF Len(page') > 0 THEN "rows" ELSE "done"
    /\ UNCHANGED << table, chunk_size, pk, query, yielded, stayed,
                    aheadOfCursor, aheadOfPage, removedBehind >>

\* Lines 67-69: the for loop takes the next row of the cached page, records
\* its key and yields it.
YieldRow ==
    /\ ipc = "rows"
    /\ pos <= Len(page)
    /\ pk' = page[pos]
    /\ yielded' = Append(yielded, page[pos])
    /\ pos' = pos + 1
    /\ UNCHANGED << table, chunk_size, query, page, ipc, fetches, stayed,
                    aheadOfCursor, aheadOfPage, removedBehind >>

\* Lines 70-71: the page is exhausted; the next lazy queryset is filtered by
\* the key reached.
NextQuery ==
    /\ ipc = "rows"
    /\ pos > Len(page)
    /\ query' = Some(pk)
    /\ ipc' = "fetch"
    /\ UNCHANGED << table, chunk_size, pk, page, pos, yielded, fetches, stayed,
                    aheadOfCursor, aheadOfPage, removedBehind >>

(***************************************************************************)
(* queryset_iterator while other transactions insert and delete rows       *)
(***************************************************************************)

\* The part of the cached page the for loop has not yet yielded.
Unyielded == { page[i] : i \in pos..Len(page) }

\* The largest key the iterator has in hand: the cursor, or the last key of
\* the page in memory.
Horizon == SetMax({pk} \cup Unyielded)

\* Another transaction inserts a row (a key not in the table).
InsertRow(k) ==
    /\ ipc # "done"
    /\ k \notin table
    /\ table' = table \cup {k}
    /\ aheadOfCursor' = IF k > pk THEN aheadOfCursor \cup {k} ELSE aheadOfCursor
    /\ aheadOfPage' = IF k > Horizon THEN aheadOfPage \cup {k} ELSE aheadOfPage
    /\ UNCHANGED << chunk_size, pk, query, page, pos, ipc, yielded, fetches,
                    stayed, removedBehind >>

\* Another transaction deletes a row.
DeleteRow(k) ==
    /\ ipc # "done"
    /\ k \in table
    /\ table' = table \ {k}
    /\ stayed' = stayed \ {k}
    /\ aheadOfCursor' = aheadOfCursor \ {k}
    /\ aheadOfPage' = aheadOfPage \ {k}
    /\ removedBehind' = IF k <= pk THEN removedBehind \cup {<< k, Len(yielded) >>}
                                   ELSE removedBehind
    /\ UNCHANGED << chunk_size, pk, query, page, pos, ipc, yielded, fetches >>

(***************************************************************************)
(* The Document: __init__, init_prepare, prepare                            *)
(***************************************************************************)

FieldNames == { "title", "author" }

Instances == 1..MaxObjPk

\* A declared field: its name in _fields, whether it is a DEDField, and its
\* _path (empty unless the declaration gave an attribute).
Field(n, d, p) == [name |-> n, ded |-> d, path |-> p]

FieldsNamed(names) ==
    { [i \in DOMAIN names |-> Field(names[i], d[i], p[i])] :
        d \in [DOMAIN names -> BOOLEAN],
        p \in [DOMAIN names -> { << >>, << "attr" >> }] }

\* Every _fields over FieldNames: the names of a dict are distinct.
Declarations ==
    UNION { FieldsNamed(names) :
              names \in { << >>, << "title" >>, << "author" >>,
                          << "title", "author" >>, << "author", "title" >> } }

\* Line 134-135: an empty _path becomes [name].
WithPath(field) ==
    IF field.path = << >> THEN [field EXCEPT !.path = << field.name >>] ELSE field

\* A faulty variant of Projector: prepare_<name> is looked up before
\* prepare_<name>_with_related.
ProjectorPlainFirst(name) ==
    IF name \in plain
    THEN [kind |-> "prepare", kw |-> "", value |-> None]
    ELSE IF name \in with_related
    THEN [kind |-> "prepare_with_related", kw |-> "related_to_ignore",
          value |-> related_instance_to_ignore]
    ELSE [kind |-> "get_value_from_instance", kw |-> "field_value_to_ignore",
          value |-> related_instance_to_ignore]

\* Lines 137-145: the callable chosen for a field: which function, and the
\* keyword argument functools.partial binds to it.
Projector(name) ==
    IF name \in with_related
    THEN [kind |-> "prepare_with_related", kw |-> "related_to_ignore",
          value |-> related_instance_to_ignore]
    ELSE IF name \in plain
    THEN [kind |-> "prepare", kw |-> "", value |-> None]
    ELSE [kind |-> "get_value_from_instance", kw |-> "field_value_to_ignore",
          value |-> related_instance_to_ignore]

\* Lines 128-149: one (name, field, fn) triple per DEDField of _fields, in the
\* order of _fields; the other fields are skipped.
RECURSIVE init_prepare(_)
init_prepare(index_fields) ==
    IF index_fields = << >> THEN << >>
    ELSE LET f == Head(index_fields)
         IN  (IF f.ded
              THEN << [name |-> f.name, field |-> WithPath(f), fn |-> Projector(f.name)] >>
              ELSE << >>)
             \o init_prepare(Tail(index_fields))

\* The side effect of init_prepare on the fields (line 135).
RECURSIVE FieldsAfterPrepare(_)
FieldsAfterPrepare(index_fields) ==
    IF index_fields = << >> THEN << >>
    ELSE LET f == Head(index_fields)
         IN  << IF f.ded THEN WithPath(f) ELSE f >>
             \o FieldsAfterPrepare(Tail(index_fields))

\* What calling a stored callable on an instance returns: the function that
\* ran, for which field (and, for the field's own extraction, along which
\* path), on which instance, with which bound keyword argument.
Call(entry, instance) ==
    [by |-> entry.fn.kind,
     field |-> entry.name,
     path |-> IF entry.fn.kind = "get_value_from_instance" THEN entry.field.path ELSE << >>,
     instance |-> instance,
     kw |-> entry.fn.kw,
     value |-> entry.fn.value]

\* Lines 156-160: the dict comprehension over _prepared_fields (for a repeated
\* key the last entry wins).
prepare(pf, instance) ==
    [n \in { pf[i].name : i \in DOMAIN pf } |->
        LET i == CHOOSE i \in DOMAIN pf :
                    /\ pf[i].name = n
                    /\ \A j \in DOMAIN pf : j > i => pf[j].name # n
        IN  Call(pf[i], instance)]

\* The class before an instance exists: _prepared_fields = [] (line 75).
DocClass(decls) ==
    /\ declared \in decls
    /\ with_related \in SUBSET FieldNames
    /\ plain \in SUBSET FieldNames
    /\ related_instance_to_ignore \in { None } \cup { Some(k) : k \in Instances }
    /\ dpc = "class"
    /\ fields = declared
    /\ prepared_fields = << >>
    /\ prepared = None

\* The Django options and overridable methods at their defaults.
DefaultOptions ==
    /\ auto_refresh = TRUE
    /\ queryset_pagination = 0
    /\ id_overridden = FALSE
    /\ indexable = Instances

\* Lines 77-80: __init__ stores the argument and runs init_prepare.
DocInit ==
    /\ dpc = "class"
    /\ dpc' = "ready"
    /\ prepared_fields' = init_prepare(fields)
    /\ fields' = FieldsAfterPrepare(fields)
    /\ UNCHANGED << declared, with_related, plain, related_instance_to_ignore,
                    auto_refresh, queryset_pagination, id_overridden, indexable,
                    prepared >>

\* Lines 151-160: prepare(instance).
Prepare(instance) ==
    /\ dpc = "ready"
    /\ prepared' = Some([instance |-> instance,
                         data |-> prepare(prepared_fields, instance)])
    /\ UNCHANGED << declared, with_related, plain, related_instance_to_ignore,
                    auto_refresh, queryset_pagination, id_overridden, indexable,
                    dpc, fields, prepared_fields >>

(***************************************************************************)
(* update() and the bulk pipeline                                          *)
(***************************************************************************)

\* self._index._name
index_name == "documents"

\* The placeholder parallel_bulk returns (line 198): (1, []).
Placeholder == << 1, << >> >>

\* An overriding generate_id: any id other than the primary key.
CustomId(row) == 0 - row

\* Lines 200-207, or the override of a subclass.
generate_id(row) == IF id_overridden THEN CustomId(row) ELSE row

\* A faulty variant of _prepare_action: _source is prepared for a delete as well.
PrepareActionAlwaysSource(row, a) ==
    [_op_type |-> a,
     _index |-> index_name,
     _id |-> generate_id(row),
     _source |-> Some(prepare(prepared_fields, row))]

\* Lines 209-217: _prepare_action.
_prepare_action(row, a) ==
    [_op_type |-> a,
     _index |-> index_name,
     _id |-> generate_id(row),
     _source |-> IF a # "delete" THEN Some(prepare(prepared_fields, row)) ELSE None]

\* Lines 232-237, or the override of a subclass.
should_index_object(row) == row \in indexable

\* A faulty variant of Included: the test for 'delete' is missing.
IncludedNoDeleteTest(row, a) ==
    [called |-> TRUE, emit |-> should_index_object(row)]

\* Line 221: action == 'delete' or self.should_index_object(object_instance);
\* `or` calls the predicate only when the first operand is false.
Included(row, a) ==
    [called |-> a # "delete",
     emit |-> a = "delete" \/ should_index_object(row)]

\* A faulty variant of ResolveRefresh: the configured default is looked at first.
ResolveRefreshAutoFirst(refresh_arg, kwargs) ==
    IF auto_refresh THEN [kwargs EXCEPT !.refresh = Some(auto_refresh)]
    ELSE IF refresh_arg # None THEN [kwargs EXCEPT !.refresh = refresh_arg]
    ELSE kwargs

\* Lines 243-246: kwargs['refresh'] is set from the argument when it is not
\* None, else from auto_refresh when that is truthy, else not at all.
ResolveRefresh(refresh_arg, kwargs) ==
    IF refresh_arg # None THEN [kwargs EXCEPT !.refresh = refresh_arg]
    ELSE IF auto_refresh THEN [kwargs EXCEPT !.refresh = Some(auto_refresh)]
    ELSE kwargs

\* Lines 190-191: the chunk size defaults to queryset_pagination when that is
\* truthy and the caller gave none.
DefaultChunkSize(kwargs) ==
    IF queryset_pagination # 0 /\ kwargs.chunk_size = None
    THEN [kwargs EXCEPT !.chunk_size = Some(queryset_pagination)]
    ELSE kwargs

\* Lines 248-251: a single model instance becomes a one-element list.
ObjectList(t) == IF t.is_model THEN << t.obj >> ELSE t.iter

\* The things update() is called with: one instance, or a list of distinct
\* instances.
RECURSIVE Lists(_)
Lists(S) ==
    { << >> } \cup UNION { { << x >> \o l : l \in Lists(S \ {x}) } : x \in S }

\* (obj is the instance when thing is one, iter the iterable when it is not).
Things ==
    { [is_model |-> TRUE, obj |-> k, iter |-> << >>] : k \in Instances }
    \cup { [is_model |-> FALSE, obj |-> 0, iter |-> l] : l \in Lists(Instances) }

Actions == { "index", "delete", "update" }

Refreshes == { None, Some(TRUE), Some(FALSE) }

\* The chunk_size keyword the caller may add, and the configured
\* queryset_pagination (0: not set).
ChunkSizes == { None, Some(1) }

Paginations == { 0, 2 }

Idle ==
    /\ upc = "idle"
    /\ thing = [is_model |-> FALSE, obj |-> 0, iter |-> << >>]
    /\ action = "index"
    /\ parallel = FALSE
    /\ refresh = None
    /\ object_list = << >>
    /\ next = 1
    /\ chunk = << >>
    /\ received = << >>
    /\ predicate_calls = << >>
    /\ client_calls = << >>
    /\ chunk_results = << >>
    /\ response = None
    /\ client_error = None
    /\ signals = << >>
    /\ result = None
    /\ raised = None
    /\ log = << >>

\* Lines 239-257, 224-230 and the entry of bulk (179) or parallel_bulk
\* (190-195): update() resolves refresh, normalises thing, builds the lazy
\* _get_actions generator and hands it to the client's bulk helper.
update(t, r, a, par, chunk_kw) ==
    /\ dpc = "ready"
    /\ upc = "idle"
    /\ thing' = t
    /\ refresh' = r
    /\ action' = a
    /\ parallel' = par
    /\ object_list' = ObjectList(t)
    /\ LET kwargs == ResolveRefresh(r, [refresh |-> None, chunk_size |-> chunk_kw])
       IN  IF par
           THEN /\ client_calls' = << [fn |-> "parallel_bulk",
                                       kwargs |-> DefaultChunkSize(kwargs)] >>
                /\ upc' = "parallel_bulk"
                /\ log' = << "parallel_bulk called" >>
           ELSE /\ client_calls' = << [fn |-> "bulk", kwargs |-> kwargs] >>
                /\ upc' = "bulk"
                /\ log' = << "bulk called" >>
    /\ UNCHANGED << next, chunk, received, predicate_calls, chunk_results,
                    response, client_error, signals, result, raised >>

\* The chunk size the client's parallel_bulk works with: the one it was
\* passed, or its own default, which is larger than any list of the model.
ChunkLimit ==
    LET kw == client_calls[1].kwargs
    IN  IF kw.chunk_size = None THEN Len(object_list) + 1 ELSE kw.chunk_size[1]

\* Lines 220-222: the client pulls the next item of _get_actions; the
\* generator looks at the next object and yields its action or skips it.
\* The serial helper sends what it is given; the parallel one fills a chunk.
_get_actions ==
    /\ upc \in { "bulk", "parallel_bulk" }
    /\ next <= Len(object_list)
    /\ upc = "parallel_bulk" => Len(chunk) < ChunkLimit
    /\ LET row == object_list[next]
           inc == Included(row, action)
           item == [row |-> row, action |-> _prepare_action(row, action)]
       IN  /\ predicate_calls' = IF inc.called THEN Append(predicate_calls, row)
                                               ELSE predicate_calls
           /\ received' = IF inc.emit /\ upc = "bulk" THEN Append(received, item)
                                                      ELSE received
           /\ chunk' = IF inc.emit /\ upc = "parallel_bulk" THEN Append(chunk, item)
                                                            ELSE chunk
    /\ next' = next + 1
    /\ UNCHANGED << upc, thing, action, parallel, refresh, object_list,
                    client_calls, chunk_results, response, client_error,
                    signals, result, raised, log >>

\* The responses the client's bulk() can return for the actions it was sent:
\* (number of successes, list of the ids that failed), with at most one
\* failure.
RECURSIVE FailedIds(_, _)
FailedIds(items, failed) ==
    IF items = << >> THEN << >>
    ELSE (IF Len(items) \in failed THEN << items[Len(items)].action._id >> ELSE << >>)
         \o FailedIds(SubSeq(items, 1, Len(items) - 1), failed)

Responses(items) ==
    { << Len(items) - Cardinality(failed), FailedIds(items, failed) >> :
        failed \in { {} } \cup { {i} : i \in DOMAIN items } }

ClientErrors == { "ConnectionError", "BulkIndexError" }

\* Line 179: the client's bulk() has consumed every action and returns.
BulkReturns(resp) ==
    /\ upc = "bulk"
    /\ next > Len(object_list)
    /\ response' = Some(resp)
    /\ upc' = "post_index"
    /\ log' = Append(log, "bulk returned")
    /\ UNCHANGED << thing, action, parallel, refresh, object_list, next, chunk,
                    received, predicate_calls, client_calls, chunk_results,
                    client_error, signals, result, raised >>

\* A faulty variant of OnClientError: bulk() catches the error and goes on to the
\* signal.
OnClientErrorCaught == "post_index"

\* Line 179 stands in no try block: an error of the client leaves bulk(),
\* _bulk() and update().
OnClientError == "raised"

\* Line 179: the client's bulk() raises, at any point of its work.
BulkRaises(err) ==
    /\ upc = "bulk"
    /\ client_error' = Some(err)
    /\ upc' = OnClientError
    /\ raised' = IF upc' = "raised" THEN Some(err) ELSE raised
    /\ log' = Append(log, "bulk raised")
    /\ UNCHANGED << thing, action, parallel, refresh, object_list, next, chunk,
                    received, predicate_calls, client_calls, chunk_results,
                    response, signals, result >>

\* A faulty variant of PostIndex: the response is returned and no signal is sent.
PostIndexNotSent ==
    /\ upc = "post_index"
    /\ result' = response
    /\ upc' = "returned"
    /\ log' = Append(log, "returned")
    /\ UNCHANGED << thing, action, parallel, refresh, object_list, next, chunk,
                    received, predicate_calls, client_calls, chunk_results,
                    response, client_error, raised, signals >>

\* Lines 181-187: post_index is sent with the response, and the response is
\* returned through _bulk() and update().
PostIndex ==
    /\ upc = "post_index"
    /\ signals' = Append(signals, [sender |-> "DocType", instance |-> "self",
                                   response |-> response])
    /\ result' = response
    /\ upc' = "returned"
    /\ log' = log \o << "post_index sent", "returned" >>
    /\ UNCHANGED << thing, action, parallel, refresh, object_list, next, chunk,
                    received, predicate_calls, client_calls, chunk_results,
                    response, client_error, raised >>

\* Line 195 (deque draining the lazy parallel_bulk): a chunk that is full, or
\* the last, partial one, is sent, and its result is consumed and dropped.
SendChunk(ok) ==
    /\ upc = "parallel_bulk"
    /\ chunk # << >>
    /\ Len(chunk) = ChunkLimit \/ next > Len(object_list)
    /\ received' = received \o chunk
    /\ chunk' = << >>
    /\ chunk_results' = Append(chunk_results, [size |-> Len(chunk), ok |-> ok])
    /\ log' = Append(log, "chunk drained")
    /\ UNCHANGED << upc, thing, action, parallel, refresh, object_list, next,
                    predicate_calls, client_calls, response, client_error,
                    signals, result, raised >>

\* Line 195: the client raises while the chunks are drained.
ParallelRaises(err) ==
    /\ upc = "parallel_bulk"
    /\ client_error' = Some(err)
    /\ raised' = Some(err)
    /\ upc' = "raised"
    /\ log' = Append(log, "parallel_bulk raised")
    /\ UNCHANGED << thing, action, parallel, refresh, object_list, next, chunk,
                    received, predicate_calls, client_calls, chunk_results,
                    response, signals, result >>

\* A faulty variant of Drained: the lazy parallel_bulk is not drained.
NotDrained == TRUE

\* Line 195: deque(bulk_actions, maxlen=0) ends when the lazy parallel_bulk
\* is exhausted: no object and no chunk is left.
Drained == next > Len(object_list) /\ chunk = << >>

\* Lines 195-198: the drain is over and the placeholder is returned.
ParallelReturns ==
    /\ upc = "parallel_bulk"
    /\ Drained
    /\ result' = Some(Placeholder)
    /\ upc' = "returned"
    /\ log' = Append(log, "returned")
    /\ UNCHANGED << thing, action, parallel, refresh, object_list, next, chunk,
                    received, predicate_calls, client_calls, chunk_results,
                    response, client_error, signals, raised >>

(***************************************************************************)
(* Specifications                                                          *)
(***************************************************************************)

NoIterator ==
    /\ table = {}
    /\ chunk_size = 1
    /\ pk = 0
    /\ query = None
    /\ page = << >>
    /\ pos = 1
    /\ ipc = "idle"
    /\ HistoryInit

NoDocument ==
    /\ DocClass({ << >> })
    /\ with_related = {}
    /\ plain = {}
    /\ related_instance_to_ignore = None
    /\ DefaultOptions

\* The example of the specification: primary keys 1..2500 in pages of 1000.
ExampleStart ==
    /\ table = 1..2500
    /\ chunk_size = 1000
    /\ pk = 0
    /\ query = None
    /\ page = << >>
    /\ pos = 1
    /\ ipc = "fetch"
    /\ HistoryInit

\* queryset_iterator over a table nobody modifies: every small table and
\* chunk size, and the example.
InitIter ==
    /\ IterStart(MaxPk, MaxChunk) \/ ExampleStart
    /\ NoDocument
    /\ Idle

NextIter ==
    \/ FetchPage /\ UNCHANGED << docVars, updVars >>
    \/ YieldRow /\ UNCHANGED << docVars, updVars >>
    \/ NextQuery /\ UNCHANGED << docVars, updVars >>

SpecIter == InitIter /\ [][NextIter]_vars

\* queryset_iterator over a table other transactions insert into and delete
\* from at any moment.
InitMut == IterStart(MaxMutPk, MaxMutChunk) /\ NoDocument /\ Idle

NextMut ==
    \/ FetchPage /\ UNCHANGED << docVars, updVars >>
    \/ YieldRow /\ UNCHANGED << docVars, updVars >>
    \/ NextQuery /\ UNCHANGED << docVars, updVars >>
    \/ \E k \in 1..MaxMutPk : InsertRow(k) /\ UNCHANGED << docVars, updVars >>
    \/ \E k \in 1..MaxMutPk : DeleteRow(k) /\ UNCHANGED << docVars, updVars >>

SpecMut == InitMut /\ [][NextMut]_vars

\* A Document of any declaration is constructed and prepares instances.
InitPrep == NoIterator /\ DocClass(Declarations) /\ DefaultOptions /\ Idle

NextPrep ==
    \/ DocInit /\ UNCHANGED << iterVars, updVars >>
    \/ \E k \in Instances : Prepare(k) /\ UNCHANGED << iterVars, updVars >>

SpecPrep == InitPrep /\ [][NextPrep]_vars

\* The declaration of the Document update() is run on: one field with the
\* default extraction.
UpdateDeclarations == { << Field("title", TRUE, << >>) >> }

\* A Document with any options and overrides is constructed and update() is
\* called on it once.
Init ==
    /\ NoIterator
    /\ DocClass(UpdateDeclarations)
    /\ with_related = {}
    /\ plain = {}
    /\ related_instance_to_ignore = None
    /\ auto_refresh \in BOOLEAN
    /\ queryset_pagination \in Paginations
    /\ id_overridden \in BOOLEAN
    /\ indexable \in SUBSET Instances
    /\ Idle

Next ==
    \/ DocInit /\ UNCHANGED << iterVars, updVars >>
    \/ \E t \in Things, r \in Refreshes, a \in Actions :
         \/ update(t, r, a, FALSE, None) /\ UNCHANGED << iterVars, docVars >>
         \/ \E c \in ChunkSizes :
              update(t, r, a, TRUE, c) /\ UNCHANGED << iterVars, docVars >>
    \/ _get_actions /\ UNCHANGED << iterVars, docVars >>
    \/ \E resp \in Responses(received) :
         BulkReturns(resp) /\ UNCHANGED << iterVars, docVars >>
    \/ \E err \in ClientErrors : BulkRaises(err) /\ UNCHANGED << iterVars, docVars >>
    \/ PostIndex /\ UNCHANGED << iterVars, docVars >>
    \/ \E ok \in BOOLEAN : SendChunk(ok) /\ UNCHANGED << iterVars, docVars >>
    \/ \E err \in ClientErrors : ParallelRaises(err) /\ UNCHANGED << iterVars, docVars >>
    \/ ParallelReturns /\ UNCHANGED << iterVars, docVars >>

Spec == Init /\ [][Next]_vars

(***************************************************************************)
(* Properties of queryset_iterator                                         *)
(***************************************************************************)

YieldedSet == { yielded[i] : i \in DOMAIN yielded }

StrictlyAscending(s) == \A i \in 1..(Len(s) - 1) : s[i] < s[i + 1]

CeilDiv(n, c) == (n + c - 1) \div c

\* C1: on a table that is not modified, for every chunk size >= 1 the keys
\* yielded are strictly ascending at every moment, and when the generator has
\* finished they are exactly the rows of the table, each yielded once.
C1_YieldsEveryRowOnceAscending ==
    /\ StrictlyAscending(yielded)
    /\ ipc = "done" =>
         /\ YieldedSet = table
         /\ Len(yielded) = Cardinality(table)

\* C1 witness: a finished run over the largest table in pages of two rows
\* (several pages, the last one partial or full).
C1_Witness ==
    /\ ipc = "done"
    /\ chunk_size = 2
    /\ Cardinality(table) = MaxPk
    /\ Len(yielded) = MaxPk

\* C10 as stated: the generator finishes after ceil(N/c) page fetches, each
\* of at most c rows and only the last possibly smaller than c; for the keys
\* 1..2500 in pages of 1000 the fetches are of 1000, 1000 and 500 rows.
C10_Original ==
    ipc = "done" =>
        /\ Len(fetches) = CeilDiv(Cardinality(table), chunk_size)
        /\ \A i \in DOMAIN fetches : fetches[i] <= chunk_size
        /\ \A i \in DOMAIN fetches : i < Len(fetches) => fetches[i] = chunk_size
        /\ (table = 1..2500 /\ chunk_size = 1000) =>
             fetches = << 1000, 1000, 500 >>

\* C10 amended: no page holds more than c rows; the generator finishes after
\* ceil(N/c) + 1 page fetches: ceil(N/c) non-empty pages, all of c rows except
\* possibly the last of them, which holds the remaining rows, and then one
\* empty page, which ends the iteration; for the keys 1..2500 in pages of
\* 1000 the fetches are of 1000, 1000, 500 and 0 rows.
C10_PagesThenOneEmptyFetch ==
    LET n == Cardinality(table)
        full == CeilDiv(n, chunk_size)
    IN  /\ \A i \in DOMAIN fetches : fetches[i] <= chunk_size
        /\ ipc = "done" =>
             /\ Len(fetches) = full + 1
             /\ fetches[full + 1] = 0
             /\ \A i \in 1..(full - 1) : fetches[i] = chunk_size
             /\ full > 0 => fetches[full] = n - chunk_size * (full - 1)
             /\ full > 0 => fetches[full] \in 1..chunk_size
             /\ Len(yielded) = n
             /\ (table = 1..2500 /\ chunk_size = 1000) =>
                  fetches = << 1000, 1000, 500, 0 >>

\* C10 witness: five rows in pages of two have been yielded from pages of 2,
\* 2 and 1 rows, and a fourth, empty page has ended the iteration (the example
\* scaled down).
C10_Witness ==
    /\ ipc = "done"
    /\ chunk_size = 2
    /\ Len(yielded) = 5
    /\ fetches = << 2, 2, 1, 0 >>

\* What C9 shares between its stated and its amended form: the keys yielded
\* are strictly ascending (no key twice), the cursor is the last key yielded
\* (so it only advances), a row deleted at or behind the cursor is not
\* yielded afterwards, and when the generator has finished every row that was
\* present throughout has been yielded.
C9_Common ==
    /\ StrictlyAscending(yielded)
    /\ pk = IF yielded = << >> THEN 0 ELSE yielded[Len(yielded)]
    /\ \A d \in removedBehind :
         \A i \in DOMAIN yielded : i > d[2] => yielded[i] # d[1]
    /\ ipc = "done" => stayed \subseteq YieldedSet

\* C9 as stated: in addition, every row inserted with a key larger than the
\* cursor before the generator finished (and not deleted again) was yielded.
C9_Original ==
    /\ C9_Common
    /\ ipc = "done" => aheadOfCursor \subseteq YieldedSet

\* C9 amended: in addition, every row inserted with a key larger than the
\* cursor and larger than every key of the page already in memory, and not
\* deleted again before the generator finished, was yielded.
C9_InsertedAheadOfPageIsYielded ==
    /\ C9_Common
    /\ ipc = "done" => aheadOfPage \subseteq YieldedSet

\* C9 witness: a finished run in which a row stayed throughout, a row was
\* deleted behind the cursor and a row was inserted ahead of the page.
C9_Witness ==
    /\ ipc = "done"
    /\ stayed # {}
    /\ removedBehind # {}
    /\ aheadOfPage # {}
    /\ aheadOfPage \subseteq YieldedSet

(***************************************************************************)
(* Properties of the preparer                                              *)
(***************************************************************************)

PreparedNames == { prepared_fields[i].name : i \in DOMAIN prepared_fields }

DeclaredDED == { declared[i].name : i \in { j \in DOMAIN declared : declared[j].ded } }

Emitted == received \o chunk

RowsOf(items) == [i \in DOMAIN items |-> items[i].row]

\* The objects _get_actions has looked at so far.
Processed == SubSeq(object_list, 1, next - 1)

Accepted(rows) ==
    LET Test(r) == r \in indexable IN SelectSeq(rows, Test)

\* C2: for an operation other than 'delete', a row for which
\* should_index_object returns false produces no action (the rows with an
\* action are the accepted ones, once each, in order); for 'delete' every row
\* looked at has produced exactly one delete action and should_index_object
\* has not been called at all.
C2_PredicateFiltersAllButDelete ==
    upc # "idle" =>
        /\ action # "delete" =>
             /\ \A i \in DOMAIN Emitted : Emitted[i].row \in indexable
             /\ RowsOf(Emitted) = Accepted(Processed)
        /\ action = "delete" =>
             /\ predicate_calls = << >>
             /\ RowsOf(Emitted) = Processed
             /\ \A i \in DOMAIN Emitted :
                  Emitted[i].action._op_type = "delete"

\* C2 witness: a finished delete of several rows, one of which
\* should_index_object rejects, all of them sent.
C2_Witness ==
    /\ upc = "returned"
    /\ action = "delete"
    /\ Len(object_list) >= 2
    /\ \E i \in DOMAIN object_list : object_list[i] \notin indexable
    /\ RowsOf(received) = object_list

SerialOnInstance == thing.is_model /\ ~parallel

\* What C3 shares between its stated and its amended form: a serial update()
\* on one instance that has returned made exactly one bulk call, sent exactly
\* one post_index signal, after the bulk call returned, carrying the response
\* of that call, and returned that response.
C3_Common ==
    /\ Len(client_calls) = 1
    /\ client_calls[1].fn = "bulk"
    /\ Len(signals) = 1
    /\ response # None
    /\ signals[1].response = response
    /\ result = response
    /\ log = << "bulk called", "bulk returned", "post_index sent", "returned" >>

\* C3 as stated: in addition, exactly one action was submitted.
C3_Original ==
    (upc = "returned" /\ SerialOnInstance) =>
        /\ C3_Common
        /\ Len(received) = 1

\* C3 amended: in addition, exactly one action was submitted when the
\* operation is 'delete' or should_index_object accepts the instance, and none
\* otherwise.
C3_SerialUpdateOneCallOneSignal ==
    (upc = "returned" /\ SerialOnInstance) =>
        /\ C3_Common
        /\ Len(received) =
             IF action = "delete" \/ thing.obj \in indexable THEN 1 ELSE 0
        /\ \A i \in DOMAIN received : received[i].row = thing.obj

\* C3 witness: a serial update() on one accepted instance has returned the
\* response of its one bulk call, which reports the one action.
C3_Witness ==
    /\ upc = "returned"
    /\ SerialOnInstance
    /\ action = "index"
    /\ Len(received) = 1
    /\ Len(signals) = 1
    /\ result = Some(<< 1, << >> >>)

\* C4: a parallel update() never sends a post_index signal, and when it has
\* returned, every action built from the input rows has been submitted, in
\* chunks whose results were all consumed, and the value returned is the
\* placeholder (1, []) whatever those results were.
C4_ParallelDrainsAll ==
    (upc # "idle" /\ parallel) =>
        /\ signals = << >>
        /\ upc = "returned" =>
             /\ next = Len(object_list) + 1
             /\ chunk = << >>
             /\ RowsOf(received) =
                  IF action = "delete" THEN object_list ELSE Accepted(object_list)
             /\ \A i \in DOMAIN received :
                  received[i].action._op_type = action
             /\ result = Some(<< 1, << >> >>)
             /\ response = None

\* C4 witness: a parallel update() has returned after draining several
\* chunks, one of which reported a failure.
C4_Witness ==
    /\ upc = "returned"
    /\ parallel
    /\ Len(chunk_results) >= 2
    /\ \E i \in DOMAIN chunk_results : ~chunk_results[i].ok
    /\ Len(received) = Len(object_list)

\* The descriptor of a row when generate_id is not overridden.
DefaultDescriptor(row) ==
    [_op_type |-> action,
     _index |-> "documents",
     _id |-> row,
     _source |-> IF action = "delete" THEN None
                 ELSE Some(prepare(prepared_fields, row))]

\* C5: every action built for a row has _op_type the requested operation,
\* _index the index name, _id generate_id(row) (the primary key by default)
\* and _source null exactly for 'delete' and prepare(row) otherwise; with
\* generate_id overridden only _id differs from the default descriptor.
C5_DescriptorFields ==
    \A i \in DOMAIN Emitted :
        LET row == Emitted[i].row
            d == Emitted[i].action
        IN  /\ d._op_type = action
            /\ d._index = "documents"
            /\ d._id = IF id_overridden THEN 0 - row ELSE row
            /\ (d._source = None) <=> (action = "delete")
            /\ action # "delete" => d._source = Some(prepare(prepared_fields, row))
            /\ [d EXCEPT !._id = row] = DefaultDescriptor(row)

\* C5 witness: with generate_id overridden, an index action carrying the
\* prepared row under the overriding id was sent.
C5_Witness ==
    /\ id_overridden
    /\ action = "index"
    /\ \E i \in DOMAIN received :
         /\ received[i].action._id # received[i].row
         /\ received[i].action._source # None

\* C6 as stated: the refresh option passed to the bulk call is the refresh
\* argument when it is not None, and otherwise the configured auto_refresh.
C6_Original ==
    upc # "idle" =>
        client_calls[1].kwargs.refresh =
            IF refresh # None THEN refresh ELSE Some(auto_refresh)

\* C6 amended: the refresh option passed to the bulk call is the refresh
\* argument when it is not None (False included); otherwise it is the
\* configured auto_refresh when that is truthy, and no refresh option is
\* passed at all when auto_refresh is falsy.
C6_ExplicitRefreshWins ==
    upc # "idle" =>
        client_calls[1].kwargs.refresh =
            IF refresh # None THEN refresh
            ELSE IF auto_refresh THEN Some(TRUE)
            ELSE None

\* C6 witness: refresh=False was passed explicitly while auto_refresh is on,
\* and the bulk call got refresh=False.
C6_Witness ==
    /\ upc = "returned"
    /\ auto_refresh
    /\ refresh = Some(FALSE)
    /\ client_calls[1].kwargs.refresh = Some(FALSE)

\* C7: when the client's bulk call fails during a serial update(), update()
\* raises that same error: the bulk helper was called once, nothing is
\* returned, and no post_index signal is sent.
C7_BulkFailurePropagates ==
    (client_error # None /\ ~parallel) =>
        /\ upc = "raised"
        /\ raised = client_error
        /\ result = None
        /\ signals = << >>
        /\ Len(client_calls) = 1
        /\ \A i \in DOMAIN log : i > 1 => log[i] # "bulk called"
        /\ log[Len(log)] = "bulk raised"

\* C7 witness: the client failed after it had been sent an action, and the
\* serial update() raised.
C7_Witness ==
    /\ upc = "raised"
    /\ ~parallel
    /\ raised = Some("BulkIndexError")
    /\ Len(received) >= 1

====
